---- MODULE Spec2Model ----
(***************************************************************************)
(* Plugin registry and multi-server dispatch client of the MCP integration *)
(* (src/mcp_integration/core/plugin_manager.py, core/multi_client.py and   *)
(* clients/brave_search_client.py).                                        *)
(*                                                                         *)
(* One MultiMCPClient instance, the process-wide plugin cache _PLUGINS and *)
(* the plugins directory it is loaded from.  initialize() is a coroutine:  *)
(* it suspends at every `await server_client.initialize()`, so it is       *)
(* modelled as InitBegin followed by one InitResume per awaited probe.     *)
(* call_tool() and close() run between these steps.                        *)
(*                                                                         *)
(* The clients used without the dispatch client have specifications of     *)
(* their own: the JSON-RPC clients (mcp_jsonrpc_client.py and              *)
(* BraveSearchClient._run_mcp_tool) and the filesystem handler             *)
(* (working_mcp_client.py).                                                *)
(***************************************************************************)
EXTENDS Integers, Sequences, FiniteSets, TLC

VARIABLES
    source,          \* plugins directory: candidate of every sub-directory
    plugins_cache,   \* plugin_manager._PLUGINS (NoCache stands for None)
    servers,         \* MultiMCPClient.servers: server_id -> MCPServerClient
    server_order,    \* insertion order of the keys of MultiMCPClient.servers
    is_initialized,  \* MultiMCPClient.is_initialized
    init,            \* frame of the running initialize() coroutine
    lifecycle,       \* history: "new", "ready" (an initialize() returned
                     \* True), "closed" (close() returned after that)
    handler,         \* one MCPServerClient held outside any MultiMCPClient
    pending,         \* backend process of the running handler.call_tool()
    sent,            \* request identifiers one protocol client has written
    filesystem,      \* one WorkingMCPClient (the filesystem handler)
    path,            \* the path argument its caller passes
    last             \* observation of the latest operation step

vars == <<source, plugins_cache, servers, server_order, is_initialized, init, lifecycle, handler, pending, sent, filesystem, path, last>>

\* the clients that are used without a MultiMCPClient or an MCPServerClient
DirectVars == <<sent, filesystem, path>>

-----------------------------------------------------------------------------
(* Bounds *)

\* number of plugin sub-directories; iterdir() yields them as 1..NumServers
NumServers == 2

ServerIds == 1..NumServers

\* most lines a backend process writes for one request
MaxLines == 2

\* calls one protocol client makes
MaxCalls == 2

\* most characters of a path argument
MaxPathLen == 4

-----------------------------------------------------------------------------
(* Plugin candidates and descriptors *)

\* BraveSearchClient.available_tools (two of its five entries)
AvailableTools == {"brave_web_search", "brave_news_search"}

\* tool names callers pass: the catalogue and one name outside it
ToolNames == AvailableTools \cup {"delete_everything"}

GoodCandidate ==
    [yaml |-> "ok", resolvable |-> TRUE, enabled |-> "true",
     has_name |-> TRUE, takes_config |-> TRUE, tools |-> AvailableTools]

\* a config.yaml whose `tools` are not the names of the client's catalogue
OtherToolsCandidate ==
    [GoodCandidate EXCEPT !.tools = {"brave_web_search", "delete_everything"}]

\* What a plugin sub-directory can hold:
\*   yaml         config.yaml is "ok", "missing", "empty" (safe_load gives
\*                None) or "invalid" (safe_load raises YAMLError)
\*   resolvable   the client class can be imported
\*   enabled      the `enabled` key: "true", "false", or "absent"
\*   has_name     the `name` key is present
\*   takes_config the client class constructor accepts the config argument
\*                (BraveSearchClient does, WorkingMCPClient does not)
\*   tools        the names under the `tools` key
Candidates ==
    { GoodCandidate,
      [GoodCandidate EXCEPT !.enabled = "false"],
      [GoodCandidate EXCEPT !.enabled = "absent"],
      [GoodCandidate EXCEPT !.takes_config = FALSE],
      [GoodCandidate EXCEPT !.has_name = FALSE],
      [GoodCandidate EXCEPT !.yaml = "missing"],
      [GoodCandidate EXCEPT !.resolvable = FALSE] }

\* the candidates of the registry alone: every way a config.yaml can fail
RegistryCandidates ==
    { GoodCandidate,
      [GoodCandidate EXCEPT !.yaml = "missing"],
      [GoodCandidate EXCEPT !.yaml = "empty"],
      [GoodCandidate EXCEPT !.yaml = "invalid"],
      [GoodCandidate EXCEPT !.has_name = FALSE],
      [GoodCandidate EXCEPT !.resolvable = FALSE],
      [GoodCandidate EXCEPT !.takes_config = FALSE] }

NoCache == [loaded |-> FALSE, plugins |-> <<>>]

\* One candidate survives discovery when its config.yaml exists and its
\* client class resolves.
Discovered(c) == c.yaml = "ok" /\ c.resolvable

\* the config of directory s with client_class and server_id attached:
\* `resolved` tells that config["client_class"] is what getattr returned,
\* `takes_config` that this object can be called with the config
Descriptor(s, c) ==
    [server_id |-> s, resolved |-> c.resolvable, enabled |-> c.enabled,
     has_name |-> c.has_name, takes_config |-> c.takes_config, tools |-> c.tools]

\* load_plugins() scanning the directory: server_id -> descriptor
ScanPlugins(src) ==
    [s \in {t \in ServerIds : Discovered(src[t])} |-> Descriptor(s, src[s])]

\* LoadPlugins with a fault: the cache is not looked at
LoadPluginsNoCache(cache, src) == [loaded |-> TRUE, plugins |-> ScanPlugins(src)]

\* load_plugins(): the cached mapping when there is one, else a scan that is
\* then cached.  Returns the new cache.
LoadPlugins(cache, src) ==
    IF cache.loaded THEN cache
    ELSE [loaded |-> TRUE, plugins |-> ScanPlugins(src)]

\* reload_plugins(): _PLUGINS = None, then load_plugins()
ReloadPlugins(cache, src) == LoadPlugins(NoCache, src)

\* EnabledTruthy with a fault: config.get("enabled", True)
EnabledTruthyDefaultTrue(config) == config.enabled # "false"

\* config.get("enabled") is truthy
EnabledTruthy(config) == config.enabled = "true"

-----------------------------------------------------------------------------
(* Results of call_tool *)

\* A returned payload: `key` tells which of the keys "content" and "error" it
\* has ("both" for the two, "nondict" for a value that is no dictionary),
\* `blocks` is the length of its content list, `text` the text of its block or
\* the fixed part of its error message, `detail` the text the message embeds.
NoResult == [key |-> "none", blocks |-> 0, text |-> "", detail |-> "", about |-> 0, ids |-> {}]

ErrorResult(text, about, ids) ==
    [key |-> "error", blocks |-> 0, text |-> text, detail |-> "", about |-> about, ids |-> ids]

\* {"content": [{"type": "text", "text": ...}]} as returned by the backend
ContentResult ==
    [key |-> "content", blocks |-> 1, text |-> "backend text", detail |-> "", about |-> 0, ids |-> {}]

\* argument dictionaries callers pass
Arguments == {"query=a", "query=b"}

\* One line of the standard output of the backend process:
\*   json    "blank" (white space only), "invalid" (json.loads raises),
\*           "nonobject" (a JSON number, null or boolean), "array" (a JSON
\*           array of numbers) or "object"
\*   id      the object's id member: "own" (the request_id of this call),
\*           "other", or "none"
\*   result  the object's result member: "absent", or what it holds:
\*           "content" (a content list of one block), "empty" (an empty
\*           content list), "both" (content and error keys), "text" (a string)
\*   error   the object has an error member
BlankLine == [json |-> "blank", id |-> "none", result |-> "absent", error |-> FALSE]

InvalidLine == [json |-> "invalid", id |-> "none", result |-> "absent", error |-> FALSE]

NonObjectLine == [json |-> "nonobject", id |-> "none", result |-> "absent", error |-> FALSE]

ArrayLine == [json |-> "array", id |-> "none", result |-> "absent", error |-> FALSE]

ObjectLine(id, result, error) ==
    [json |-> "object", id |-> id, result |-> result, error |-> error]

OutputLines ==
    { BlankLine, InvalidLine, NonObjectLine, ArrayLine,
      ObjectLine("own", "content", FALSE),
      ObjectLine("own", "empty", FALSE),
      ObjectLine("own", "both", FALSE),
      ObjectLine("own", "text", FALSE),
      ObjectLine("other", "content", FALSE),
      ObjectLine("own", "absent", TRUE),
      ObjectLine("other", "absent", TRUE) }

\* What the backend of one tool call does:
\*   mode   "spawn_fails" (create_subprocess_exec raises), "nonzero" (exit
\*          status not 0), "exit_zero", or "handler_raises" (the working
\*          client's call_tool raises, as a client class other than
\*          BraveSearchClient may)
\*   lines  its standard output when it exits with status 0
Output(mode, lines) == [mode |-> mode, lines |-> lines]

\* the outputs of at most n lines
Outputs(n) ==
    { Output("spawn_fails", <<>>), Output("nonzero", <<>>),
      Output("handler_raises", <<>>) }
    \cup { Output("exit_zero", ls) :
             ls \in UNION { [1..k -> OutputLines] : k \in 0..n } }

\* the backend answers with content, it fails, or the handler's call_tool raises
BackendOutcomes ==
    { Output("exit_zero", <<ObjectLine("own", "content", FALSE)>>),
      Output("nonzero", <<>>),
      Output("handler_raises", <<>>) }

\* what the reachability probe of a handler's initialize() does
ProbeOutcomes == {"ok", "fail", "raise"}

\* what a handler's close() does
CloseOutcomes == {"ok", "raise"}

CallRecord(server_id, tool_name, arguments) ==
    [server_id |-> server_id, tool_name |-> tool_name, arguments |-> arguments]

-----------------------------------------------------------------------------
(* Observation of the latest operation step *)

\* A request identifier: the tool name and the hash of the parameters it is
\* built from, or the serial number of a generated one.
NoRequest == [tool |-> "", hash |-> 0, serial |-> 0]

NoObs ==
    [op |-> "none",
     ret_bool |-> FALSE,         \* initialize(): the returned boolean
     constructed |-> {},         \* initialize(): MCPServerClient(...) was called
     probed |-> {},              \* initialize(): working_client.initialize() was called
     succeeded |-> {},           \* initialize(): server_client.initialize() returned True
     server_id |-> 0,            \* call_tool(): its arguments
     tool_name |-> "",
     arguments |-> "",
     ret |-> NoResult,           \* call_tool(): the returned payload
     wrapper_calls |-> {},       \* call_tool(): calls made on MCPServerClient objects
     wrapper_ret |-> NoResult,   \* call_tool(): what MCPServerClient.call_tool returned
     handler_calls |-> {},       \* call_tool(): calls made on working clients
     backend |-> {},             \* call_tool(): calls that reached a backend process
     output |-> Output("none", <<>>),  \* call_tool(): what that backend did
     request_id |-> NoRequest,   \* call_tool(): the id member of the request written
     path |-> <<>>,              \* call_tool(): the path handed to the backend command
     stderr |-> "",              \* call_tool(): what the backend wrote to stderr
     raised |-> FALSE,           \* an exception left the operation
     closed |-> {},              \* close(): handlers whose close() was called
     plugins |-> <<>>,           \* load_plugins(), reload_plugins(): the returned mapping
     tools |-> {}]               \* get_server_tools(): the keys of the returned mapping

\* no handler.call_tool() is running
NoPending == [state |-> "none", via |-> "", tool_name |-> "", arguments |-> "",
              request_id |-> NoRequest, output |-> Output("none", <<>>)]

IdleFrame ==
    [pc |-> "idle", sid |-> 0, plugins |-> <<>>,
     constructed |-> {}, probed |-> {}, succeeded |-> {}]

-----------------------------------------------------------------------------
(* MCPServerClient: the per-server wrapper around a working client *)

\* MCPServerClient.__init__: client_class(config) raises when the class does
\* not take the config argument; otherwise both flags start False.
ConstructorRaises(config) == ~config.takes_config

NewWrapper(config) ==
    [has_name |-> config.has_name,      \* MCPServerClient.config has a name
     tools |-> config.tools,            \* MCPServerClient.config["tools"]
     is_initialized |-> FALSE,          \* MCPServerClient.is_initialized
     working_initialized |-> FALSE,     \* working_client.is_initialized
     closed |-> FALSE]                  \* history: close() was called on it

\* MCPServerClient.initialize before its await: the print of config['name']
\* raises KeyError inside the try, and the except clause's own print of
\* config['name'] raises it again, so the exception leaves initialize().
WrapperInitializeRaises(config) == ~config.has_name

\* MCPServerClient.initialize after working_client.initialize() finished
\* with outcome o: the wrapper and whether it returned True.
WrapperInitialized(w, o) ==
    IF o = "ok"
    THEN [success |-> TRUE,
          wrapper |-> [w EXCEPT !.is_initialized = TRUE, !.working_initialized = TRUE]]
    ELSE [success |-> FALSE, wrapper |-> w]

-----------------------------------------------------------------------------
(* MultiMCPClient.initialize *)

\* The body of the for loop from plugin i up to the next suspension: disabled
\* plugins are skipped, an enabled one is constructed and its initialize()
\* entered.  It ends at the await inside working_client.initialize() (pc
\* "await"), with an exception thrown by the constructor or by
\* MCPServerClient.initialize (pc "raise"), or past the last plugin (pc "end").
RECURSIVE RunLoop(_, _, _, _)
RunLoop(i, plugins, constructed, probed) ==
    IF i > NumServers
    THEN [pc |-> "end", sid |-> 0, constructed |-> constructed, probed |-> probed]
    ELSE IF i \notin DOMAIN plugins
    THEN RunLoop(i + 1, plugins, constructed, probed)
    ELSE IF ~EnabledTruthy(plugins[i])
    THEN RunLoop(i + 1, plugins, constructed, probed)
    ELSE IF ConstructorRaises(plugins[i])
    THEN [pc |-> "raise", sid |-> i,
          constructed |-> constructed \cup {i}, probed |-> probed]
    ELSE IF WrapperInitializeRaises(plugins[i])
    THEN [pc |-> "raise", sid |-> i,
          constructed |-> constructed \cup {i}, probed |-> probed]
    ELSE [pc |-> "await", sid |-> i,
          constructed |-> constructed \cup {i}, probed |-> probed \cup {i}]

\* `if self.servers:` after the loop
AnyServer(srv) == DOMAIN srv # {}

\* self.servers[server_id] = server_client
AddServer(srv, sid, w) ==
    [s \in DOMAIN srv \cup {sid} |-> IF s = sid THEN w ELSE srv[s]]

\* key order of the dict after self.servers[server_id] = server_client
AddKey(order, sid) ==
    IF \E k \in 1..Len(order) : order[k] = sid THEN order ELSE Append(order, sid)

InitObs(ret, r, succeeded) ==
    [NoObs EXCEPT !.op = "initialize", !.ret_bool = ret,
                  !.constructed = r.constructed, !.probed = r.probed,
                  !.succeeded = succeeded]

\* initialize() returns `ret`
InitReturn(ret, r, succeeded) ==
    /\ init' = IdleFrame
    /\ last' = InitObs(ret, r, succeeded)
    /\ lifecycle' = IF ret /\ lifecycle = "new" THEN "ready" ELSE lifecycle

\* initialize() runs on from loop state r with self.servers = srv
InitContinue(r, plugins, srv, succeeded) ==
    CASE r.pc = "await" ->
           /\ init' = [pc |-> "await", sid |-> r.sid, plugins |-> plugins,
                       constructed |-> r.constructed, probed |-> r.probed,
                       succeeded |-> succeeded]
           /\ last' = [NoObs EXCEPT !.op = "suspended"]
           /\ UNCHANGED <<is_initialized, lifecycle>>
      [] r.pc = "raise" ->
           \* except Exception: return False
           /\ InitReturn(FALSE, r, succeeded)
           /\ UNCHANGED is_initialized
      [] r.pc = "end" ->
           IF AnyServer(srv)
           THEN /\ is_initialized' = TRUE
                /\ InitReturn(TRUE, r, succeeded)
           ELSE /\ InitReturn(FALSE, r, succeeded)
                /\ UNCHANGED is_initialized

\* initialize() from its start to its first suspension or to its return
InitBegin ==
    /\ init.pc = "idle"
    /\ plugins_cache' = LoadPlugins(plugins_cache, source)
    /\ LET plugins == plugins_cache'.plugins IN
         IF DOMAIN plugins = {}
         THEN \* if not plugins: return False
              /\ InitReturn(FALSE, IdleFrame, {})
              /\ UNCHANGED is_initialized
         ELSE InitContinue(RunLoop(1, plugins, {}, {}), plugins, servers, {})
    /\ UNCHANGED <<source, servers, server_order, handler, pending, DirectVars>>

\* initialize() resumed: working_client.initialize() of init.sid finished with
\* outcome o; on success the wrapper is stored, then the loop runs on.
InitResume ==
    /\ init.pc = "await"
    /\ \E o \in ProbeOutcomes :
         LET res == WrapperInitialized(NewWrapper(init.plugins[init.sid]), o)
             srv == IF res.success THEN AddServer(servers, init.sid, res.wrapper)
                    ELSE servers
             succ == IF res.success THEN init.succeeded \cup {init.sid}
                     ELSE init.succeeded
         IN /\ servers' = srv
            /\ server_order' = IF res.success THEN AddKey(server_order, init.sid)
                               ELSE server_order
            /\ InitContinue(RunLoop(init.sid + 1, init.plugins,
                                    init.constructed, init.probed),
                            init.plugins, srv, succ)
    /\ UNCHANGED <<source, plugins_cache, handler, pending, DirectVars>>

-----------------------------------------------------------------------------
(* call_tool *)

\* BraveSearchClient._run_docker_command: success is False when the process
\* cannot be created or exits with a status other than 0
DockerSuccess(o) == o.mode = "exit_zero"

\* response["result"] of a line, returned as it is
ResultPayload(result) ==
    CASE result = "content" -> ContentResult
      [] result = "empty" -> [ContentResult EXCEPT !.blocks = 0]
      [] result = "both" -> [ContentResult EXCEPT !.key = "both"]
      [] result = "text" -> [NoResult EXCEPT !.key = "nondict", !.text = "backend text"]

\* output.strip(): leading and trailing blank lines go
RECURSIVE StripOutput(_)
StripOutput(ls) ==
    IF ls = <<>> THEN ls
    ELSE IF Head(ls).json = "blank" THEN StripOutput(Tail(ls))
    ELSE IF ls[Len(ls)].json = "blank" THEN StripOutput(SubSeq(ls, 1, Len(ls) - 1))
    ELSE ls

\* the scan of the lines in _run_mcp_tool; NoResult when the loop ends
\* without a return
RECURSIVE ScanLines(_)
ScanLines(ls) ==
    IF ls = <<>> THEN NoResult
    ELSE LET line == Head(ls) IN
         IF line.json \in {"blank", "invalid"}
         THEN \* if line.strip() / except json.JSONDecodeError: continue
              ScanLines(Tail(ls))
         ELSE IF line.json \in {"nonobject", "array"}
         THEN \* response.get raises AttributeError, caught by the
              \* outermost except Exception
              ErrorResult("Failed to execute Brave Search MCP tool", 0, {})
         ELSE IF line.id = "own" /\ line.result # "absent"
         THEN ResultPayload(line.result)
         ELSE IF line.error
         THEN ErrorResult("MCP Server Error", 0, {})
         ELSE ScanLines(Tail(ls))

\* {"content": [{"type": "text", "text": response_json}]}
RawContent == [ContentResult EXCEPT !.text = "raw output"]

\* BraveSearchClient._run_mcp_tool when the backend does o
RunMcpTool(o) ==
    IF ~DockerSuccess(o)
    THEN ErrorResult("Docker exec failed", 0, {})
    ELSE LET response_json == StripOutput(o.lines) IN
         IF response_json = <<>>
         THEN ErrorResult("Empty response from MCP server", 0, {})
         ELSE LET r == ScanLines(response_json) IN
              IF r = NoResult THEN RawContent ELSE r

\* BraveSearchClient.call_tool on the working client of wrapper w; o is what
\* the backend does when it is reached.
HandlerCall(w, tool_name, o) ==
    IF ~w.working_initialized
    THEN [raised |-> FALSE, backend |-> FALSE,
          ret |-> ErrorResult("Brave Search MCP client not initialized", 0, {})]
    ELSE IF tool_name \notin AvailableTools
    THEN [raised |-> FALSE, backend |-> FALSE,
          ret |-> ErrorResult("Unknown tool", 0, {})]
    ELSE IF o.mode = "handler_raises"
    THEN [raised |-> TRUE, backend |-> TRUE, ret |-> NoResult]
    ELSE [raised |-> FALSE, backend |-> TRUE, ret |-> RunMcpTool(o)]

\* WrapperTools with a fault: every name is taken as a catalogue key
WrapperToolsAnyName(w) == ToolNames

\* MCPServerClient.get_available_tools: the working client's catalogue;
\* config["tools"] is read only when there is no working client, and
\* __init__ always makes one
WrapperTools(w) == AvailableTools

\* an error message of MCPServerClient.call_tool that is formatted with
\* self.config['name']: KeyError when the config has no name
WrapperError(w, text, sid) ==
    IF w.has_name
    THEN [raised |-> FALSE, ret |-> ErrorResult(text, sid, {}),
          handler_calls |-> {}, backend |-> {}]
    ELSE [raised |-> TRUE, ret |-> NoResult, handler_calls |-> {}, backend |-> {}]

\* WrapperRaises with a fault: no except clause around the call
WrapperRaisesUncaught(h) == h.raised

\* try: return await self.working_client.call_tool(...) except Exception:
\* whether an exception of the working client leaves MCPServerClient.call_tool
WrapperRaises(h) == FALSE

\* MCPServerClient.call_tool
WrapperCall(w, sid, tool_name, arguments, o) ==
    IF ~w.is_initialized
    THEN WrapperError(w, "not initialized", sid)
    ELSE IF tool_name \notin WrapperTools(w)
    THEN WrapperError(w, "Unknown tool for server", sid)
    ELSE LET h == HandlerCall(w, tool_name, o)
             c == CallRecord(sid, tool_name, arguments)
         IN [raised |-> WrapperRaises(h),
             ret |-> IF WrapperRaises(h) THEN NoResult
                     ELSE IF h.raised THEN ErrorResult("Tool execution failed", 0, {})
                     ELSE h.ret,
             handler_calls |-> {c},
             backend |-> IF h.backend THEN {c} ELSE {}]

\* ClientReady with a fault: `if not self.servers`
ClientReadyByServers(ready, srv) == DOMAIN srv # {}

\* `if not self.is_initialized` of MultiMCPClient.call_tool
ClientReady(ready, srv) == ready

\* AvailableList with a fault: the ids of all loaded plugins
AvailableListAllPlugins(srv, plugins) == DOMAIN plugins

\* list(self.servers.keys()) in the "not available" message
AvailableList(srv, plugins) == DOMAIN srv

\* DispatchTarget with a fault: some active server
DispatchTargetAny(srv, server_id) == CHOOSE s \in DOMAIN srv : TRUE

\* the server whose call_tool is awaited: self.servers[server_id]
DispatchTarget(srv, server_id) == server_id

\* the arguments handed to it
DispatchArguments(arguments) == arguments

\* what MultiMCPClient.call_tool returns from the wrapper's result
DispatchReturn(wrapper_ret) == wrapper_ret

\* MultiMCPClient.call_tool
DispatchCall(ready, srv, plugins, server_id, tool_name, arguments, o) ==
    LET obs == [NoObs EXCEPT !.op = "call", !.server_id = server_id,
                             !.tool_name = tool_name, !.arguments = arguments]
    IN IF ~ClientReady(ready, srv)
       THEN [obs EXCEPT !.ret = ErrorResult("Multi-MCP Client not initialized", 0, {})]
       ELSE IF server_id \notin DOMAIN srv
       THEN [obs EXCEPT !.ret = ErrorResult("Server not available", server_id,
                                            AvailableList(srv, plugins))]
       ELSE LET t == DispatchTarget(srv, server_id)
                a == DispatchArguments(arguments)
                r == WrapperCall(srv[t], t, tool_name, a, o)
            IN [obs EXCEPT !.ret = DispatchReturn(r.ret),
                           !.wrapper_calls = {CallRecord(t, tool_name, a)},
                           !.wrapper_ret = r.ret,
                           !.handler_calls = r.handler_calls,
                           !.backend = r.backend,
                           !.output = IF r.backend = {} THEN NoObs.output ELSE o,
                           !.raised = r.raised]

\* ServersAfterCall with a fault: a server whose call failed is dropped
ServersAfterCallDropFailed(srv, obs) ==
    IF obs.ret.key = "error"
    THEN [s \in DOMAIN srv \ {obs.server_id} |-> srv[s]]
    ELSE srv

\* self.servers after call_tool() returned obs: call_tool assigns nothing
ServersAfterCall(srv, obs) == srv

CallTool ==
    /\ \E server_id \in ServerIds, tool_name \in ToolNames,
          arguments \in Arguments, o \in BackendOutcomes :
         last' = DispatchCall(is_initialized, servers, plugins_cache.plugins,
                              server_id, tool_name, arguments, o)
    /\ servers' = ServersAfterCall(servers, last')
    /\ UNCHANGED <<source, plugins_cache, server_order, is_initialized,
                   init, lifecycle, handler, pending, DirectVars>>

\* one backend behaviour of every kind that _run_mcp_tool tells apart
DispatchOutputs ==
    { Output("spawn_fails", <<>>), Output("nonzero", <<>>),
      Output("handler_raises", <<>>),
      Output("exit_zero", <<>>),
      Output("exit_zero", <<InvalidLine>>),
      Output("exit_zero", <<NonObjectLine>>),
      Output("exit_zero", <<InvalidLine, NonObjectLine>>),
      Output("exit_zero", <<ObjectLine("own", "content", FALSE)>>),
      Output("exit_zero", <<ObjectLine("own", "empty", FALSE)>>),
      Output("exit_zero", <<ObjectLine("own", "both", FALSE)>>),
      Output("exit_zero", <<ObjectLine("own", "text", FALSE)>>),
      Output("exit_zero", <<ObjectLine("other", "absent", TRUE),
                            ObjectLine("own", "content", FALSE)>>) }

\* call_tool with each of these behaviours of the backend, drawn only for a
\* call that gets to the backend
CallToolDetailed ==
    /\ \E server_id \in ServerIds, tool_name \in ToolNames, arguments \in Arguments :
         LET unreached == Output("spawn_fails", <<>>)
             probe == DispatchCall(is_initialized, servers, plugins_cache.plugins,
                                   server_id, tool_name, arguments, unreached)
         IN \E o \in IF probe.backend = {} THEN {unreached} ELSE DispatchOutputs :
              last' = DispatchCall(is_initialized, servers, plugins_cache.plugins,
                                   server_id, tool_name, arguments, o)
    /\ servers' = ServersAfterCall(servers, last')
    /\ UNCHANGED <<source, plugins_cache, server_order, is_initialized,
                   init, lifecycle, handler, pending, DirectVars>>

\* ServerTools with a fault: the descriptor's tools, as the MCPServerClient
\* of multi_mcp_client.py returns them
ServerToolsFromConfig(srv, server_id) ==
    IF server_id \in DOMAIN srv THEN srv[server_id].tools ELSE {}

\* MultiMCPClient.get_server_tools: the keys of the mapping it returns
ServerTools(srv, server_id) ==
    IF server_id \in DOMAIN srv THEN WrapperTools(srv[server_id]) ELSE {}

GetServerTools ==
    /\ \E server_id \in ServerIds :
         last' = [NoObs EXCEPT !.op = "get_server_tools", !.server_id = server_id,
                               !.tools = ServerTools(servers, server_id)]
    /\ UNCHANGED <<source, plugins_cache, servers, server_order, is_initialized,
                   init, lifecycle, handler, pending, DirectVars>>

-----------------------------------------------------------------------------
(* close *)

\* MCPServerClient.close on wrapper w when working_client.close() does o:
\* BraveSearchClient.close clears the working client's flag; the wrapper's
\* own flag is not touched.
WrapperClosed(w, o) ==
    IF o = "ok" THEN [w EXCEPT !.working_initialized = FALSE, !.closed = TRUE]
    ELSE [w EXCEPT !.closed = TRUE]

\* for server in self.servers.values(): await server.close()
\* from position k of the key order; outcome[s] is what close() of s does.
\* An exception of one close() ends the loop and leaves close().
RECURSIVE CloseLoop(_, _, _, _, _)
CloseLoop(k, order, srv, outcome, closed) ==
    IF k > Len(order)
    THEN [servers |-> srv, raised |-> FALSE, closed |-> closed]
    ELSE LET s == order[k]
             srv2 == [srv EXCEPT ![s] = WrapperClosed(srv[s], outcome[s])]
         IN IF outcome[s] = "raise"
            THEN [servers |-> srv2, raised |-> TRUE, closed |-> closed \cup {s}]
            ELSE CloseLoop(k + 1, order, srv2, outcome, closed \cup {s})

\* self.servers after close() returned or raised
ServersAfterClose(srv) == srv

\* MultiMCPClient.close
Close ==
    /\ \E outcome \in [DOMAIN servers -> CloseOutcomes] :
         LET r == CloseLoop(1, server_order, servers, outcome, {})
         IN /\ servers' = ServersAfterClose(r.servers)
            /\ last' = [NoObs EXCEPT !.op = "close", !.raised = r.raised,
                                     !.closed = r.closed]
            /\ lifecycle' = IF lifecycle = "ready" /\ ~r.raised THEN "closed"
                            ELSE lifecycle
    /\ UNCHANGED <<source, plugins_cache, server_order, is_initialized, init,
                   handler, pending, DirectVars>>

-----------------------------------------------------------------------------
(* The plugin registry used on its own *)

\* load_plugins()
LoadPluginsCall ==
    /\ plugins_cache' = LoadPlugins(plugins_cache, source)
    /\ last' = [NoObs EXCEPT !.op = "load", !.plugins = plugins_cache'.plugins]
    /\ UNCHANGED <<source, servers, server_order, is_initialized, init, lifecycle,
                   handler, pending, DirectVars>>

\* reload_plugins()
ReloadPluginsCall ==
    /\ plugins_cache' = ReloadPlugins(plugins_cache, source)
    /\ last' = [NoObs EXCEPT !.op = "reload", !.plugins = plugins_cache'.plugins]
    /\ UNCHANGED <<source, servers, server_order, is_initialized, init, lifecycle,
                   handler, pending, DirectVars>>

\* somebody changes one plugin directory
EditSource ==
    /\ \E s \in ServerIds, c \in RegistryCandidates :
         /\ c # source[s]
         /\ source' = [source EXCEPT ![s] = c]
    /\ last' = [NoObs EXCEPT !.op = "edit"]
    /\ UNCHANGED <<plugins_cache, servers, server_order, is_initialized, init,
                   lifecycle, handler, pending, DirectVars>>

-----------------------------------------------------------------------------
(* A handler used on its own: the MCPServerClient `handler` and its working *)
(* client, called by one caller that awaits each operation.                 *)

DispatchVars ==
    <<source, plugins_cache, servers, server_order, is_initialized, init, lifecycle>>

\* MCPServerClient.initialize of the handler; o is what
\* working_client.initialize() does
HandlerInitialize ==
    /\ pending.state = "none"
    /\ \E o \in ProbeOutcomes :
         IF WrapperInitializeRaises(handler)
         THEN /\ handler' = handler
              /\ last' = [NoObs EXCEPT !.op = "handler_initialize", !.raised = TRUE]
         ELSE LET res == WrapperInitialized(handler, o) IN
              /\ handler' = res.wrapper
              /\ last' = [NoObs EXCEPT !.op = "handler_initialize",
                                       !.ret_bool = res.success]
    /\ UNCHANGED <<DispatchVars, pending, DirectVars>>

\* working_client.call_tool called on the working client itself
WorkingCall(w, tool_name, arguments, o) ==
    LET h == HandlerCall(w, tool_name, o)
        c == CallRecord(0, tool_name, arguments)
    IN [raised |-> h.raised, ret |-> h.ret, handler_calls |-> {c},
        backend |-> IF h.backend THEN {c} ELSE {}]

\* call_tool of the handler (via "handler_call") or of its working client
\* (via "working_call")
StandaloneCall(via, w, tool_name, arguments, o) ==
    IF via = "handler_call" THEN WrapperCall(w, 0, tool_name, arguments, o)
    ELSE WorkingCall(w, tool_name, arguments, o)

HandlerCallObs(via, tool_name, arguments, r, o) ==
    [NoObs EXCEPT !.op = via, !.tool_name = tool_name, !.arguments = arguments,
                  !.ret = r.ret, !.handler_calls = r.handler_calls,
                  !.backend = r.backend,
                  !.output = IF r.backend = {} THEN NoObs.output ELSE o,
                  !.raised = r.raised]

\* call_tool up to `await process.communicate()`: it returns at once when it
\* does not get to the backend, when the process cannot be created or when
\* the working client raises; otherwise the process runs and call_tool waits.
HandlerCallTool ==
    /\ pending.state = "none"
    /\ \E via \in {"handler_call", "working_call"}, tool_name \in ToolNames,
          arguments \in Arguments,
          start \in {"spawn_fails", "handler_raises", "running"} :
         LET early == Output(IF start = "running" THEN "spawn_fails" ELSE start, <<>>)
             r == StandaloneCall(via, handler, tool_name, arguments, early)
         IN IF r.backend = {} \/ start # "running"
            THEN /\ last' = HandlerCallObs(via, tool_name, arguments, r, early)
                 /\ pending' = pending
            ELSE /\ last' = [NoObs EXCEPT !.op = "suspended"]
                 /\ pending' = [NoPending EXCEPT !.state = "running", !.via = via,
                                                 !.tool_name = tool_name,
                                                 !.arguments = arguments]
    /\ UNCHANGED <<DispatchVars, handler, DirectVars>>

\* the backend process exits, having written its output
BackendExits ==
    /\ pending.state = "running"
    /\ \E o \in Outputs(MaxLines) :
         /\ o.mode \in {"nonzero", "exit_zero"}
         /\ pending' = [pending EXCEPT !.state = "exited", !.output = o]
    /\ last' = [NoObs EXCEPT !.op = "suspended"]
    /\ UNCHANGED <<DispatchVars, handler, DirectVars>>

\* process.communicate() has returned: call_tool runs to its return
HandlerCallReturn ==
    /\ pending.state = "exited"
    /\ LET r == StandaloneCall(pending.via, handler, pending.tool_name,
                               pending.arguments, pending.output)
       IN last' = HandlerCallObs(pending.via, pending.tool_name,
                                 pending.arguments, r, pending.output)
    /\ pending' = NoPending
    /\ UNCHANGED <<DispatchVars, handler, DirectVars>>

\* MCPServerClient.close of the handler; o is what working_client.close() does
HandlerClose ==
    /\ pending.state = "none"
    /\ \E o \in CloseOutcomes :
         /\ handler' = WrapperClosed(handler, o)
         /\ last' = [NoObs EXCEPT !.op = "handler_close", !.raised = (o = "raise")]
    /\ UNCHANGED <<DispatchVars, pending, DirectVars>>

-----------------------------------------------------------------------------
(* The JSON-RPC clients used directly: BraveSearchClient._run_mcp_tool, as  *)
(* call_tool of an initialized BraveSearchClient runs it for one of its     *)
(* tools, and MCPJSONRPCClient.call_tool.  One client object, one caller    *)
(* that awaits each call.                                                   *)

ProtocolClients == {"brave", "jsonrpc"}

\* no protocol client is in use
NoSent == [client |-> "none", ids |-> <<>>]

\* hash(str(params)): a number that depends on the parameters only
ParamsHash(arguments) ==
    CASE arguments = "query=a" -> 17
      [] arguments = "query=b" -> 23

\* request_id = f"{tool_name}_{hash(str(params))}"
BraveRequestId(tool_name, arguments) ==
    [tool |-> tool_name, hash |-> ParamsHash(arguments), serial |-> 0]

\* request_id = str(uuid.uuid4()): a value not generated before; ids are the
\* identifiers the client generated so far
Uuid4(ids) == [NoRequest EXCEPT !.serial = Len(ids) + 1]

RequestId(client, tool_name, arguments, ids) ==
    IF client = "brave" THEN BraveRequestId(tool_name, arguments) ELSE Uuid4(ids)

\* response["result"] of a line; a line written for another request holds
\* that request's result
LineResult(line) ==
    LET p == ResultPayload(line.result)
    IN IF line.id = "own" THEN p ELSE [p EXCEPT !.text = "text for another request"]

\* the scan of the lines in MCPJSONRPCClient.call_tool; NoResult when the
\* loop ends without a return
RECURSIVE JsonRpcScanLines(_)
JsonRpcScanLines(ls) ==
    IF ls = <<>> THEN NoResult
    ELSE LET line == Head(ls) IN
         IF line.json \in {"blank", "invalid"}
         THEN \* if line.strip() / except json.JSONDecodeError: continue
              JsonRpcScanLines(Tail(ls))
         ELSE IF line.json = "nonobject"
         THEN \* `"result" in response` raises TypeError, caught by the
              \* except Exception around the scan
              ErrorResult("Failed to parse MCP response", 0, {})
         ELSE IF line.json = "array"
         THEN \* neither "result" nor "error" is an element of it
              JsonRpcScanLines(Tail(ls))
         ELSE IF line.result # "absent"
         THEN LineResult(line)
         ELSE IF line.error
         THEN ErrorResult("MCP Error", 0, {})
         ELSE JsonRpcScanLines(Tail(ls))

\* {"content": [{"type": "text", "text": stdout.decode()}]}
JsonRpcRawContent(lines) ==
    [ContentResult EXCEPT !.text = IF lines = <<>> THEN "" ELSE "raw output"]

\* MCPJSONRPCClient.call_tool when the backend does o
JsonRpcCallTool(o) ==
    IF o.mode = "spawn_fails"
    THEN ErrorResult("Failed to communicate with MCP server", 0, {})
    ELSE IF o.mode # "exit_zero"
    THEN ErrorResult("MCP server error", 0, {})
    ELSE LET r == JsonRpcScanLines(o.lines) IN
         IF r = NoResult THEN JsonRpcRawContent(o.lines) ELSE r

ProtocolCall(client, o) ==
    IF client = "brave" THEN RunMcpTool(o) ELSE JsonRpcCallTool(o)

ProtocolObs(tool_name, arguments, request_id, o) ==
    [NoObs EXCEPT !.op = "protocol_call", !.tool_name = tool_name,
                  !.arguments = arguments, !.request_id = request_id,
                  !.output = o, !.ret = ProtocolCall(sent.client, o)]

\* the call up to `await process.communicate()`: the request gets its
\* identifier, and the call returns at once when the process cannot be created
ProtocolCallTool ==
    /\ pending.state = "none"
    /\ Len(sent.ids) < MaxCalls
    /\ \E tool_name \in AvailableTools, arguments \in Arguments,
          start \in {"spawn_fails", "running"} :
         LET request_id == RequestId(sent.client, tool_name, arguments, sent.ids) IN
         /\ sent' = [sent EXCEPT !.ids = Append(@, request_id)]
         /\ IF start = "spawn_fails"
            THEN /\ last' = ProtocolObs(tool_name, arguments, request_id,
                                        Output("spawn_fails", <<>>))
                 /\ pending' = pending
            ELSE /\ last' = [NoObs EXCEPT !.op = "suspended"]
                 /\ pending' = [NoPending EXCEPT !.state = "running",
                                                 !.via = "protocol_call",
                                                 !.tool_name = tool_name,
                                                 !.arguments = arguments,
                                                 !.request_id = request_id]
    /\ UNCHANGED <<DispatchVars, handler, filesystem, path>>

\* process.communicate() has returned: the call runs to its return
ProtocolReturn ==
    /\ pending.state = "exited"
    /\ last' = ProtocolObs(pending.tool_name, pending.arguments,
                           pending.request_id, pending.output)
    /\ pending' = NoPending
    /\ UNCHANGED <<DispatchVars, handler, DirectVars>>

-----------------------------------------------------------------------------
(* WorkingMCPClient: the filesystem handler, which runs one shell command   *)
(* in the container for each tool.  A path is a sequence of characters.     *)

PathChars == {"/", ".", "a"}

\* the path arguments of at most n characters
Paths(n) == UNION { [1..k -> PathChars] : k \in 0..n }

\* self.server_path
ServerPath == <<"/", "a">>

\* path.startswith(prefix)
StartsWith(p, prefix) ==
    Len(p) >= Len(prefix) /\ SubSeq(p, 1, Len(prefix)) = prefix

\* path.replace('..', ''): the occurrences of '..' found from the left, not
\* overlapping, are removed in one pass
RECURSIVE ReplaceDotDot(_)
ReplaceDotDot(p) ==
    IF p = <<>> THEN p
    ELSE IF Len(p) >= 2 /\ p[1] = "." /\ p[2] = "."
    THEN ReplaceDotDot(SubSeq(p, 3, Len(p)))
    ELSE <<Head(p)>> \o ReplaceDotDot(Tail(p))

SafePath(p) ==
    ReplaceDotDot(IF StartsWith(p, <<"/">>) THEN p ELSE ServerPath \o <<"/">> \o p)

\* self.available_tools
FilesystemTools ==
    {"list_directory", "read_file", "write_file", "create_directory", "move_file",
     "get_file_info", "search_files", "directory_tree"}

\* the branches of call_tool
ImplementedTools == FilesystemTools \ {"move_file"}

\* what the command of one tool call does: the process cannot be created,
\* or it exits with a status and has written `stderr`
FilesystemOutcomes ==
    { [mode |-> "exit_zero", stderr |-> ""],
      [mode |-> "exit_zero", stderr |-> "warning"],
      [mode |-> "nonzero", stderr |-> "permission denied"],
      [mode |-> "nonzero", stderr |-> ""],
      [mode |-> "spawn_fails", stderr |-> ""] }

\* WorkingMCPClient._run_docker_command
RunDockerCommand(o) ==
    [success |-> o.mode = "exit_zero",
     error |-> IF o.mode = "spawn_fails" THEN "Command execution failed" ELSE o.stderr]

\* the fixed part of the error message of each branch
FailureText(tool_name) ==
    CASE tool_name = "list_directory" -> "Failed to list directory"
      [] tool_name = "read_file" -> "Failed to read file"
      [] tool_name = "write_file" -> "Failed to write file"
      [] tool_name = "create_directory" -> "Failed to create directory"
      [] tool_name = "get_file_info" -> "Failed to get file info"
      [] tool_name = "search_files" -> "Search failed"
      [] tool_name = "directory_tree" -> "Failed to get directory tree"

\* WorkingMCPClient.call_tool with the path argument p; o is what the
\* command does when one is run
FilesystemCall(fs, tool_name, p, o) ==
    IF ~fs.is_initialized
    THEN [backend |-> FALSE, path |-> <<>>,
          ret |-> ErrorResult("MCP client not initialized", 0, {})]
    ELSE IF tool_name \notin FilesystemTools
    THEN [backend |-> FALSE, path |-> <<>>,
          ret |-> ErrorResult("Unknown tool", 0, {})]
    ELSE IF tool_name \notin ImplementedTools
    THEN [backend |-> FALSE, path |-> <<>>,
          ret |-> ErrorResult("Tool not implemented", 0, {})]
    ELSE LET result == RunDockerCommand(o) IN
         [backend |-> TRUE, path |-> SafePath(p),
          ret |-> IF result.success
                  THEN [ContentResult EXCEPT !.text = "command output"]
                  ELSE [ErrorResult(FailureText(tool_name), 0, {})
                            EXCEPT !.detail = result.error]]

\* WorkingMCPClient.initialize; o is what the probe `ls -la server_path` does
FilesystemInitialize ==
    /\ \E o \in ProbeOutcomes :
         /\ filesystem' = IF o = "ok" THEN [filesystem EXCEPT !.is_initialized = TRUE]
                          ELSE filesystem
         /\ last' = [NoObs EXCEPT !.op = "filesystem_initialize", !.ret_bool = (o = "ok")]
    /\ UNCHANGED <<DispatchVars, handler, pending, sent, path>>

FilesystemCallTool ==
    /\ \E tool_name \in FilesystemTools \cup {"delete_everything"},
          o \in FilesystemOutcomes :
         LET r == FilesystemCall(filesystem, tool_name, path, o) IN
         last' = [NoObs EXCEPT !.op = "filesystem_call", !.tool_name = tool_name,
                               !.ret = r.ret, !.path = r.path,
                               !.backend = IF r.backend
                                           THEN {CallRecord(0, tool_name, "")} ELSE {},
                               !.output = Output(o.mode, <<>>),
                               !.stderr = o.stderr]
    /\ UNCHANGED <<DispatchVars, handler, pending, DirectVars>>

\* WorkingMCPClient.close
FilesystemClose ==
    /\ filesystem' = [filesystem EXCEPT !.is_initialized = FALSE]
    /\ last' = [NoObs EXCEPT !.op = "filesystem_close"]
    /\ UNCHANGED <<DispatchVars, handler, pending, sent, path>>

-----------------------------------------------------------------------------
(* Specification *)

\* no client is used directly
DirectIdle ==
    /\ sent = NoSent
    /\ filesystem = [is_initialized |-> FALSE]
    /\ path = <<>>

\* the state after MultiMCPClient(), over a plugins directory of candidates cs
InitOver(cs) ==
    /\ source \in [ServerIds -> cs]
    /\ plugins_cache = NoCache
    /\ servers = <<>>
    /\ server_order = <<>>
    /\ is_initialized = FALSE
    /\ init = IdleFrame
    /\ lifecycle = "new"
    /\ handler = NewWrapper(Descriptor(0, GoodCandidate))
    /\ pending = NoPending
    /\ DirectIdle
    /\ last = NoObs

Init == InitOver(Candidates)

Next ==
    \/ InitBegin
    \/ InitResume
    \/ CallTool
    \/ Close

Spec == Init /\ [][Next]_vars

\* The dispatch client over plugin directories that load, enabled or not,
\* initialized and called with backends of every kind; it is not closed.
InitCalls ==
    InitOver({GoodCandidate, [GoodCandidate EXCEPT !.enabled = "false"]})

NextCalls ==
    \/ InitBegin
    \/ InitResume
    \/ CallToolDetailed

SpecCalls == InitCalls /\ [][NextCalls]_vars

\* The dispatch client and its catalogues, over plugin directories whose
\* config.yaml declares the tools of the client class or other tools; the
\* client is not closed.
InitCatalogue ==
    InitOver({GoodCandidate, OtherToolsCandidate,
              [GoodCandidate EXCEPT !.enabled = "false"]})

NextCatalogue ==
    \/ InitBegin
    \/ InitResume
    \/ CallTool
    \/ GetServerTools

SpecCatalogue == InitCatalogue /\ [][NextCatalogue]_vars

\* The registry on its own, over a plugins directory that changes.
InitRegistry ==
    /\ source \in [ServerIds -> RegistryCandidates]
    /\ plugins_cache = NoCache
    /\ servers = <<>>
    /\ server_order = <<>>
    /\ is_initialized = FALSE
    /\ init = IdleFrame
    /\ lifecycle = "new"
    /\ handler = NewWrapper(Descriptor(0, GoodCandidate))
    /\ pending = NoPending
    /\ DirectIdle
    /\ last = NoObs

NextRegistry ==
    \/ LoadPluginsCall
    \/ ReloadPluginsCall
    \/ EditSource

SpecRegistry == InitRegistry /\ [][NextRegistry]_vars

\* A handler on its own: constructed from any descriptor that load_plugins()
\* yields and whose client class takes the config; no MultiMCPClient is used.
InitHandler ==
    /\ source = [s \in ServerIds |-> GoodCandidate]
    /\ plugins_cache = NoCache
    /\ servers = <<>>
    /\ server_order = <<>>
    /\ is_initialized = FALSE
    /\ init = IdleFrame
    /\ lifecycle = "new"
    /\ handler \in { NewWrapper(Descriptor(0, c)) :
                         c \in {x \in Candidates : /\ Discovered(x)
                                                   /\ ~ConstructorRaises(Descriptor(0, x))} }
    /\ pending = NoPending
    /\ DirectIdle
    /\ last = NoObs

NextHandler ==
    \/ HandlerInitialize
    \/ HandlerCallTool
    \/ BackendExits
    \/ HandlerCallReturn
    \/ HandlerClose

SpecHandler == InitHandler /\ [][NextHandler]_vars

\* The event loop resumes call_tool once communicate() has returned; nothing
\* makes a backend process exit.
FairSpecHandler == SpecHandler /\ WF_vars(HandlerCallReturn)

\* One protocol client, called up to MaxCalls times.
InitProtocol ==
    /\ source = [s \in ServerIds |-> GoodCandidate]
    /\ plugins_cache = NoCache
    /\ servers = <<>>
    /\ server_order = <<>>
    /\ is_initialized = FALSE
    /\ init = IdleFrame
    /\ lifecycle = "new"
    /\ handler = NewWrapper(Descriptor(0, GoodCandidate))
    /\ pending = NoPending
    /\ sent \in {[NoSent EXCEPT !.client = c] : c \in ProtocolClients}
    /\ filesystem = [is_initialized |-> FALSE]
    /\ path = <<>>
    /\ last = NoObs

NextProtocol ==
    \/ ProtocolCallTool
    \/ BackendExits
    \/ ProtocolReturn

SpecProtocol == InitProtocol /\ [][NextProtocol]_vars

\* One WorkingMCPClient and a caller that passes one path argument.
InitFilesystem ==
    /\ source = [s \in ServerIds |-> GoodCandidate]
    /\ plugins_cache = NoCache
    /\ servers = <<>>
    /\ server_order = <<>>
    /\ is_initialized = FALSE
    /\ init = IdleFrame
    /\ lifecycle = "new"
    /\ handler = NewWrapper(Descriptor(0, GoodCandidate))
    /\ pending = NoPending
    /\ sent = NoSent
    /\ filesystem = [is_initialized |-> FALSE]
    /\ path \in Paths(MaxPathLen)
    /\ last = NoObs

NextFilesystem ==
    \/ FilesystemInitialize
    \/ FilesystemCallTool
    \/ FilesystemClose

SpecFilesystem == InitFilesystem /\ [][NextFilesystem]_vars

-----------------------------------------------------------------------------
(* Properties *)

\* the enabled descriptors of the registry initialize() worked from
EnabledIds ==
    {s \in DOMAIN plugins_cache.plugins : plugins_cache.plugins[s].enabled = "true"}

\* the call the latest call_tool() was asked to make
LastCallRecord == CallRecord(last.server_id, last.tool_name, last.arguments)

\* C1: when initialize() returns and some enabled plugin did not succeed, every
\* enabled plugin was attempted (its handler constructed), every plugin that
\* succeeded is in servers, and the return value is True if one succeeded.
C1_OneFailureNeverBlocksOthers ==
    (last.op = "initialize" /\ EnabledIds \ last.succeeded # {}) =>
        /\ EnabledIds \subseteq last.constructed
        /\ last.succeeded \subseteq DOMAIN servers
        /\ (last.succeeded # {} => last.ret_bool)

\* C2: a plugin whose descriptor has enabled false or absent is never
\* constructed, never probed and never a key of servers.
C2_DisabledNeverInstantiated ==
    \A s \in DOMAIN plugins_cache.plugins :
        plugins_cache.plugins[s].enabled \in {"false", "absent"} =>
            /\ s \notin init.constructed \cup init.probed
            /\ s \notin last.constructed \cup last.probed
            /\ s \notin DOMAIN servers

C2_Witness ==
    /\ last.op = "initialize"
    /\ last.ret_bool
    /\ \E s \in DOMAIN plugins_cache.plugins : plugins_cache.plugins[s].enabled = "false"
    /\ lifecycle = "closed"

C2_WitnessAbsent ==
    /\ last.op = "initialize"
    /\ last.constructed # {}
    /\ \E s \in DOMAIN plugins_cache.plugins : plugins_cache.plugins[s].enabled = "absent"

\* C3: initialize() returns True exactly when servers is non-empty at its return.
C3_ReturnsTrueIffActive ==
    last.op = "initialize" => (last.ret_bool <=> DOMAIN servers # {})

\* C4: while no initialize() has returned True, call_tool() returns the
\* "not initialized" error and calls no wrapper, no working client, no backend.
C4_CallBeforeInitialize ==
    (last.op = "call" /\ lifecycle = "new") =>
        /\ last.ret = ErrorResult("Multi-MCP Client not initialized", 0, {})
        /\ last.wrapper_calls = {}
        /\ last.handler_calls = {}
        /\ last.backend = {}

\* a call made while the first initialize() is suspended with a server stored
C4_Witness ==
    /\ last.op = "call"
    /\ lifecycle = "new"
    /\ last.server_id \in DOMAIN servers
    /\ init.pc = "await"

\* C5: on an initialized client a call for a server_id that is no key of
\* servers returns the "not available" error listing exactly the keys of
\* servers, and calls nothing.
C5_ServerNotAvailable ==
    (last.op = "call" /\ is_initialized /\ last.server_id \notin DOMAIN servers) =>
        /\ last.ret = ErrorResult("Server not available", last.server_id, DOMAIN servers)
        /\ last.wrapper_calls = {}
        /\ last.handler_calls = {}
        /\ last.backend = {}

\* the id asked for is a loaded, enabled plugin that is not active
C5_Witness ==
    /\ last.op = "call"
    /\ is_initialized
    /\ last.server_id \notin DOMAIN servers
    /\ last.server_id \in EnabledIds
    /\ DOMAIN servers # {}

\* C6: on an initialized client a call for a key of servers calls call_tool of
\* that wrapper only, with the same tool name and arguments, and returns what
\* that wrapper returned.
C6_DispatchToExactlyThatServer ==
    (last.op = "call" /\ is_initialized /\ last.server_id \in DOMAIN servers) =>
        /\ last.wrapper_calls = {LastCallRecord}
        /\ last.handler_calls \subseteq {LastCallRecord}
        /\ last.backend \subseteq {LastCallRecord}
        /\ last.ret = last.wrapper_ret
        /\ last.ret.key \in {"content", "error"}

\* two servers are active and the call for the second returns content
C6_Witness ==
    /\ last.op = "call"
    /\ is_initialized
    /\ Cardinality(DOMAIN servers) >= 2
    /\ last.server_id = 2
    /\ last.ret = ContentResult
    /\ last.backend = {LastCallRecord}

C6_WitnessError ==
    /\ last.op = "call"
    /\ is_initialized
    /\ last.server_id \in DOMAIN servers
    /\ last.ret.key = "error"
    /\ last.backend = {LastCallRecord}

\* C7: after close() servers is empty.
C7_CloseEmptiesServers ==
    last.op = "close" => DOMAIN servers = {}

\* C8: close() calls close() of every active handler and raises nothing, also
\* when close() of one handler raises.
C8_CloseBestEffort ==
    last.op = "close" => (~last.raised /\ last.closed = DOMAIN servers)

\* C9: a wrapper on which close() was called has its initialized flag False,
\* as has its working client, and a call routed to it returns an error without
\* reaching the backend.
C9_HandlerEndsAtClose ==
    /\ \A s \in DOMAIN servers :
          servers[s].closed =>
              (~servers[s].is_initialized /\ ~servers[s].working_initialized)
    /\ \A c \in last.wrapper_calls :
          servers[c.server_id].closed =>
              (last.ret.key = "error" /\ last.backend = {})

\* C10: once close() has returned on a client that was initialized, no
\* call_tool() reaches a backend again.
C10_NotRestartable ==
    (lifecycle = "closed" /\ last.op = "call") =>
        (last.ret.key = "error" /\ last.backend = {})

\* C11: call_tool of a handler on which no initialize() has returned True
\* (of the MCPServerClient or of its working client) returns an error payload,
\* raises nothing and does not get to the backend.
C11_CallBeforeHandlerInitialize ==
    (last.op \in {"handler_call", "working_call"} /\ ~handler.is_initialized) =>
        /\ ~last.raised
        /\ last.ret.key = "error"
        /\ last.backend = {}

\* C12: call_tool of an initialized handler with a tool name that is no key
\* of the handler's catalogue returns the unknown-tool error payload; the
\* MCPServerClient does not call its working client, the working client does
\* not get to the backend, and no process is left running.
C12_UnknownTool ==
    /\ (/\ last.op = "handler_call"
        /\ handler.is_initialized
        /\ last.tool_name \notin AvailableTools) =>
           /\ ~last.raised
           /\ last.ret = ErrorResult("Unknown tool for server", 0, {})
           /\ last.handler_calls = {}
           /\ last.backend = {}
           /\ pending.state = "none"
    /\ (/\ last.op = "working_call"
        /\ handler.working_initialized
        /\ last.tool_name \notin AvailableTools) =>
           /\ ~last.raised
           /\ last.ret = ErrorResult("Unknown tool", 0, {})
           /\ last.backend = {}
           /\ pending.state = "none"

\* the handler and its working client are initialized and the name asked for
\* is outside the catalogue
C12_Witness ==
    /\ last.op = "handler_call"
    /\ handler.is_initialized
    /\ handler.working_initialized
    /\ last.tool_name = "delete_everything"
    /\ last.ret.key = "error"

C12_WitnessWorking ==
    /\ last.op = "working_call"
    /\ handler.working_initialized
    /\ last.tool_name = "delete_everything"
    /\ last.ret.key = "error"

\* the lines of the output the latest call got
LastLines == {last.output.lines[k] : k \in DOMAIN last.output.lines}

\* C13: no call_tool raises, whatever the backend does; when the process
\* cannot be created, exits with a status other than 0, writes nothing, or
\* writes valid JSON that is no object, the MCPServerClient and the
\* MultiMCPClient return an error payload; when it writes only lines that are
\* not JSON they return the raw output as content.
C13_NoExceptionCrossesCall ==
    last.op = "call" =>
        /\ ~last.raised
        /\ last.ret.key # "none"
        /\ (last.wrapper_calls # {} => last.ret = last.wrapper_ret)
        /\ (last.backend # {} /\ last.output.mode # "exit_zero") =>
               last.ret.key = "error"
        /\ (/\ last.backend # {}
            /\ last.output.mode = "exit_zero"
            /\ LastLines \subseteq {BlankLine, InvalidLine, NonObjectLine}) =>
               IF LastLines \subseteq {BlankLine}
               THEN last.ret = ErrorResult("Empty response from MCP server", 0, {})
               ELSE IF NonObjectLine \in LastLines
               THEN last.ret.key = "error"
               ELSE last.ret.key = "content" /\ last.ret.blocks >= 1

\* the backend wrote a line that is not JSON and then JSON that is no object
C13_Witness ==
    /\ last.op = "call"
    /\ last.backend # {}
    /\ last.output = Output("exit_zero", <<InvalidLine, NonObjectLine>>)
    /\ last.ret.key = "error"

C13_WitnessRaise ==
    /\ last.op = "call"
    /\ last.backend # {}
    /\ last.output.mode = "handler_raises"
    /\ last.ret.key = "error"

\* C14: every payload call_tool returns has exactly one of the keys content
\* and error, and one with content has a content list of at least one block.
C14_ContentXorError ==
    last.op = "call" =>
        /\ last.ret.key \in {"content", "error"}
        /\ (last.ret.key = "content" => last.ret.blocks >= 1)

\* C15: a call_tool() step, whatever it returns, leaves servers (its keys,
\* their order, every handler's flags) and the client's is_initialized as they
\* were, so the same call made again is dispatched to the same handler.
C15_CallChangesNothing ==
    [][last'.op = "call" =>
          /\ servers' = servers
          /\ server_order' = server_order
          /\ is_initialized' = is_initialized
          /\ plugins_cache' = plugins_cache]_vars

\* a call to an active, initialized handler came back with an error from the
\* backend, and the handler is still registered and initialized
C15_Witness ==
    /\ last.op = "call"
    /\ last.ret = ErrorResult("Docker exec failed", 0, {})
    /\ last.backend = {LastCallRecord}
    /\ is_initialized
    /\ last.server_id \in DOMAIN servers
    /\ servers[last.server_id].is_initialized
    /\ servers[last.server_id].working_initialized

\* what the claim calls a valid candidate: its config.yaml parses, has the
\* required fields and names a handler that resolves
ValidCandidate(c) == c.yaml = "ok" /\ c.has_name /\ c.resolvable

\* C16: the mapping that reload_plugins() discovers and returns has exactly
\* the valid candidates of the plugins directory as keys; a candidate with a missing, empty or invalid config.yaml, a
\* missing required field or an unresolvable handler is not in it.
C16_LoadSkipsBadCandidates ==
    last.op = "reload" =>
        DOMAIN last.plugins = {s \in ServerIds : ValidCandidate(source[s])}

\* C17: a load_plugins() step taken when a mapping is cached returns that
\* mapping and leaves the cache alone, whatever the plugins directory holds
\* by then; a reload_plugins() step, and the first load_plugins(), return the
\* mapping discovered from the directory as it is now and cache it.
C17_LoadCachesReloadRescans ==
    [][/\ (last'.op = "load" /\ plugins_cache.loaded) =>
             /\ last'.plugins = plugins_cache.plugins
             /\ plugins_cache' = plugins_cache
       /\ (last'.op = "reload" \/ (last'.op = "load" /\ ~plugins_cache.loaded)) =>
             /\ last'.plugins = ScanPlugins(source)
             /\ plugins_cache' = [loaded |-> TRUE, plugins |-> ScanPlugins(source)]
      ]_vars

\* load_plugins() returned the cached mapping although the directory has
\* changed and a scan would now give another mapping
C17_Witness ==
    /\ last.op = "load"
    /\ plugins_cache.loaded
    /\ last.plugins = plugins_cache.plugins
    /\ last.plugins # ScanPlugins(source)
    /\ DOMAIN last.plugins # {}

\* reload_plugins() replaced a cached mapping by a different one
C17_WitnessReload ==
    /\ last.op = "reload"
    /\ last.plugins = ScanPlugins(source)
    /\ DOMAIN last.plugins = ServerIds

\* C18: every descriptor of the cached registry mapping carries a handler
\* type that was resolved and can be instantiated, and a server_id equal to
\* its key.
C18_RegistryDescriptors ==
    \A s \in DOMAIN plugins_cache.plugins :
        /\ plugins_cache.plugins[s].server_id = s
        /\ plugins_cache.plugins[s].resolved
        /\ plugins_cache.plugins[s].takes_config

\* C19 as claimed: get_server_tools(server_id) of an active server returns
\* exactly the tools its configuration declares, and the empty mapping for a
\* server_id that is not active; call_tool accepts a tool name for an active
\* server exactly when the configuration declares it.
C19_CatalogueRoundTrip ==
    /\ last.op = "get_server_tools" =>
           last.tools = IF last.server_id \in DOMAIN servers
                        THEN plugins_cache.plugins[last.server_id].tools
                        ELSE {}
    /\ (last.op = "call" /\ is_initialized /\ last.server_id \in DOMAIN servers) =>
           (last.handler_calls # {}
               <=> last.tool_name \in plugins_cache.plugins[last.server_id].tools)

\* C19 amended: get_server_tools(server_id) of an active server returns the
\* catalogue of the server's working client, whatever the configuration
\* declares, and the empty mapping for a server_id that is not active;
\* call_tool hands a tool name on to the working client of an active server
\* exactly when it is in that catalogue.
C19_CatalogueIsTheHandlers ==
    /\ last.op = "get_server_tools" =>
           last.tools = IF last.server_id \in DOMAIN servers
                        THEN AvailableTools
                        ELSE {}
    /\ (last.op = "call" /\ is_initialized /\ last.server_id \in DOMAIN servers) =>
           (last.handler_calls # {} <=> last.tool_name \in AvailableTools)

\* the tools of an active server were asked for and its configuration
\* declares other tools than its working client has
C19_Witness ==
    /\ last.op = "get_server_tools"
    /\ last.server_id \in DOMAIN servers
    /\ plugins_cache.plugins[last.server_id].tools # AvailableTools
    /\ last.tools = AvailableTools

C19_WitnessNotActive ==
    /\ last.op = "get_server_tools"
    /\ last.server_id \notin DOMAIN servers
    /\ DOMAIN servers # {}
    /\ last.tools = {}

\* C20: a call_tool() that waits for its backend process returns, also when
\* the process never exits.
C20_EveryCallReturns ==
    (pending.state = "running") ~> (pending.state = "none")

\* C21: any two calls of one protocol client, two calls with the same tool
\* name and equal arguments included, write different request identifiers.
C21_RequestIdsUnique ==
    \A i, j \in DOMAIN sent.ids : i # j => sent.ids[i] # sent.ids[j]
\* the result of the first line that is a response object with a result and
\* the identifier of the request; NoResult when no line is one
RECURSIVE MatchingResponse(_)
MatchingResponse(ls) ==
    IF ls = <<>> THEN NoResult
    ELSE IF Head(ls).json = "object" /\ Head(ls).id = "own" /\ Head(ls).result # "absent"
    THEN ResultPayload(Head(ls).result)
    ELSE MatchingResponse(Tail(ls))

\* the latest step is the return of a protocol call whose backend exited
\* with status 0
ProtocolReturned == last.op = "protocol_call" /\ last.output.mode = "exit_zero"

\* C22: a protocol call whose backend output holds a response object with the
\* request's identifier returns the result of the first such line; lines that
\* do not parse, are no response object or carry another identifier (an error
\* member included) are skipped and never make the call fail.
C22_FirstMatchingResponse ==
    (ProtocolReturned /\ MatchingResponse(last.output.lines) # NoResult)
        => last.ret = MatchingResponse(last.output.lines)

\* C23: when the backend output holds the response to another request before
\* the response to this request, the call returns the response that carries
\* this request's identifier, not the earlier line.
C23_NeverCrossDelivered ==
    (/\ ProtocolReturned
     /\ \E i, j \in DOMAIN last.output.lines :
          /\ i < j
          /\ last.output.lines[i] = ObjectLine("other", "content", FALSE)
          /\ last.output.lines[j].json = "object"
          /\ last.output.lines[j].id = "own"
          /\ last.output.lines[j].result # "absent"
          /\ \A k \in 1..(j - 1) :
               last.output.lines[k] \in {BlankLine, ObjectLine("other", "content", FALSE)})
        => /\ last.ret = MatchingResponse(last.output.lines)
           /\ last.ret.text # "text for another request"
\* C26: when the backend exits with status 0 and no output line carries the
\* request's identifier or an error member, a protocol call returns the raw output as one text content block
\* if the output is not empty, and an error payload, not a content block with
\* empty text, if the output is empty.
C26_RawOutputFallback ==
    (/\ ProtocolReturned
     /\ \A k \in DOMAIN last.output.lines :
          last.output.lines[k].id # "own" /\ ~last.output.lines[k].error)
        => /\ StripOutput(last.output.lines) # <<>>
                => (last.ret.key = "content" /\ last.ret.blocks = 1
                    /\ last.ret.text = "raw output")
           /\ last.output.lines = <<>>
                => (last.ret.key = "error" /\ last.ret.text # "")
\* C24: after initialize() of a handler returns, the handler's initialized
\* flag equals the returned boolean, also when an earlier initialize() of the
\* same handler had succeeded and this one probes again.
C24_FlagFollowsProbe ==
    (last.op = "handler_initialize" /\ ~last.raised)
        => /\ handler.is_initialized = last.ret_bool
           /\ handler.working_initialized = last.ret_bool
\* C25: a call of a catalogue tool on an initialized filesystem handler
\* returns a content list with a text block when the backend command exits
\* with status 0, and an error payload holding the captured stderr text when
\* it exits with another status; nothing but the exit status decides.
C25_ExitStatusDecides ==
    (/\ last.op = "filesystem_call"
     /\ filesystem.is_initialized
     /\ last.tool_name \in FilesystemTools)
        => /\ last.output.mode = "exit_zero"
                => (last.ret.key = "content" /\ last.ret.blocks >= 1)
           /\ last.output.mode = "nonzero"
                => (last.ret.key = "error" /\ last.ret.detail = last.stderr)

\* C30: the path handed to the backend command starts with server_path and
\* holds no '..', whatever the path argument is.
C30_SafePathInsideServerPath ==
    (last.op = "filesystem_call" /\ last.backend # {})
        => /\ StartsWith(last.path, ServerPath)
           /\ \A i \in 1..(Len(last.path) - 1) :
                ~(last.path[i] = "." /\ last.path[i + 1] = ".")
\* C27: whenever no initialize() is running, the ready flag of the dispatch
\* client is true exactly when active_servers is not empty.
C27_ReadyIffActive ==
    init.pc = "idle" => (is_initialized <=> DOMAIN servers # {})

\* C28: when an initialize() of the dispatch client returns, first or
\* repeated, active_servers holds exactly the servers whose handler
\* initialize() succeeded during that initialize().
C28_ActiveAreThisRunsSuccesses ==
    last.op = "initialize" => DOMAIN servers = last.succeeded

\* C29: a call_tool() that runs while initialize() is suspended between two
\* servers, before any initialize() has returned True, returns the
\* not-initialized error or is served by a handler whose own initialize() has
\* returned True; it never reaches a handler that is not initialized.
C29_CallDuringInitialize ==
    (last.op = "call" /\ init.pc = "await" /\ lifecycle = "new")
        => \/ /\ last.ret = ErrorResult("Multi-MCP Client not initialized", 0, {})
              /\ last.wrapper_calls = {}
           \/ /\ last.wrapper_calls # {}
              /\ \A c \in last.wrapper_calls :
                   /\ c.server_id \in DOMAIN servers
                   /\ servers[c.server_id].is_initialized

\* a call made between two servers of the first initialize(), after the first
\* server was stored, addressed to that server
C29_Witness ==
    /\ last.op = "call"
    /\ init.pc = "await"
    /\ lifecycle = "new"
    /\ init.succeeded # {}
    /\ DOMAIN servers = init.succeeded
    /\ last.server_id \in DOMAIN servers
    /\ last.tool_name \in AvailableTools
    /\ last.ret.key = "error"
====
